---- MODULE Spec2Model ----
(***************************************************************************)
(* Model of a5utils.py: the vectorised bilinear sampler                    *)
(* bilinear_interpolate(image, x, y) and the click collector SelectPoints. *)
(*                                                                         *)
(* Floating-point coordinates are fixed-point numbers: the integer k       *)
(* stands for the float k / Scale.  Weights and interpolated values, being *)
(* products of two such numbers, are kept in units of 1 / (Scale * Scale). *)
(* Arrays (numpy arrays, python lists) are sequences; numpy's 0-based      *)
(* index i is position i + 1 of the sequence.                              *)
(***************************************************************************)
EXTENDS Integers, Sequences, FiniteSets

VARIABLES image, x, y, x0, x1, y0, y1, wa, wb, wc, wd, values, pc,
          npoints, xs, ys, pts, texts, connected, ndraw, toffset, event

samplerVars == <<image, x, y, x0, x1, y0, y1, wa, wb, wc, wd, values, pc>>
clickVars == <<npoints, xs, ys, pts, texts, connected, ndraw, toffset, event>>
vars == <<image, x, y, x0, x1, y0, y1, wa, wb, wc, wd, values, pc,
          npoints, xs, ys, pts, texts, connected, ndraw, toffset, event>>

(***************************************************************************)
(* Bounds of the model.                                                    *)
(***************************************************************************)
Scale == 4        \* coordinates are multiples of 1 / Scale
MaxDim == 2       \* fields have 1..MaxDim rows and 1..MaxDim columns
Out == 5          \* query coordinates reach Out / Scale beyond the grid on each side
MaxSlope == 2     \* row and column slopes of the generated fields
MaxOffset == 1    \* constant term of the generated fields
MaxBatch == 2     \* longest batch of query points
MaxPoints == 2    \* largest target count given to SelectPoints
MaxClick == 1     \* click coordinates are 0..MaxClick (twentieths of a data unit)
MaxView == 1      \* the axis view is 1..MaxView data units wide

Min(a, b) == IF a <= b THEN a ELSE b
Max(a, b) == IF a >= b THEN a ELSE b

(***************************************************************************)
(* Inputs.  Field(H, W, a, b, c, d)[row][col] = a*row + b*col + c +        *)
(* d*row*col: a plane when d = 0, a twisted (bilinear) surface when d = 1. *)
(***************************************************************************)
Field(H, W, a, b, c, d) ==
    [r \in 1..H |-> [k \in 1..W |->
        a * (r - 1) + b * (k - 1) + c + d * (r - 1) * (k - 1)]]

Images ==
    { Field(H, W, a, b, c, d) :
        H \in 1..MaxDim, W \in 1..MaxDim,
        a \in 0..MaxSlope, b \in 0..MaxSlope, c \in 0..MaxOffset, d \in {0, 1} }

Coords == (0 - Out) .. ((MaxDim - 1) * Scale + Out)

BatchImages == { Field(MaxDim, MaxDim, MaxSlope, 1, 0, d) : d \in {0, 1} }
BatchCoords == { 0 - 1, 1, Scale, (MaxDim - 1) * Scale + 1 }

SeqsOf(S, n) == [1..n -> S]

(***************************************************************************)
(* numpy primitives, elementwise over arrays.                              *)
(***************************************************************************)
Shape0(img) == Len(img)
Shape1(img) == Len(img[1])

\* fault variant: rounds to the nearest integer instead of flooring
FloorRound(v) == [i \in DOMAIN v |-> (v[i] + Scale \div 2) \div Scale]
\* np.floor(v).astype(int)
FloorInt(v) == [i \in DOMAIN v |-> v[i] \div Scale]

\* v + 1
AddOne(v) == [i \in DOMAIN v |-> v[i] + 1]

\* fault variant: the lower bound is not applied
ClipUpperOnly(v, lo, hi) == [i \in DOMAIN v |-> Min(v[i], hi)]
\* np.clip(v, lo, hi) = minimum(maximum(v, lo), hi)
Clip(v, lo, hi) == [i \in DOMAIN v |-> Min(Max(v[i], lo), hi)]

\* numpy accepts an index i of an axis of length n when -n <= i <= n-1,
\* a negative index counting from the end
IndexOk(n, i) == (0 - n) <= i /\ i <= n - 1
Wrap(n, i) == IF i < 0 THEN i + n ELSE i

\* fault variant: every element is read from the first point's column
TakeFirstCol(img, rows, cols) ==
    [i \in DOMAIN rows |->
        img[Wrap(Shape0(img), rows[i]) + 1][Wrap(Shape1(img), cols[1]) + 1]]
\* image[rows, cols] with two index arrays of equal length: one element per i
Take(img, rows, cols) ==
    [i \in DOMAIN rows |->
        img[Wrap(Shape0(img), rows[i]) + 1][Wrap(Shape1(img), cols[i]) + 1]]

\* (hi - v) with hi an int array and v a float array; the result is a float
IntMinusFloat(hi, v) == [i \in DOMAIN v |-> hi[i] * Scale - v[i]]
\* (v - lo)
FloatMinusInt(v, lo) == [i \in DOMAIN v |-> v[i] - lo[i] * Scale]
\* elementwise product and sum of float arrays
Times(p, q) == [i \in DOMAIN p |-> p[i] * q[i]]
Plus(p, q) == [i \in DOMAIN p |-> p[i] + q[i]]

(***************************************************************************)
(* The interpolation weights, from the values x0, x1, y0, y1 held when *)
(* the weights are computed.                                               *)
(***************************************************************************)
WeightA(xq, yq, ix0, ix1, iy0, iy1) == Times(IntMinusFloat(ix1, xq), IntMinusFloat(iy1, yq))
\* fault variant of WeightB: the formula of wc
WeightBAsC(xq, yq, ix0, ix1, iy0, iy1) == Times(FloatMinusInt(xq, ix0), IntMinusFloat(iy1, yq))
WeightB(xq, yq, ix0, ix1, iy0, iy1) == Times(IntMinusFloat(ix1, xq), FloatMinusInt(yq, iy0))
WeightC(xq, yq, ix0, ix1, iy0, iy1) == Times(FloatMinusInt(xq, ix0), IntMinusFloat(iy1, yq))
WeightD(xq, yq, ix0, ix1, iy0, iy1) == Times(FloatMinusInt(xq, ix0), FloatMinusInt(yq, iy0))

(***************************************************************************)
(* bilinear_interpolate, statement by statement.  x0, x1, y0, y1 are       *)
(* assigned twice: the clipped arrays replace the floor-derived ones       *)
(* before the lookups and before the weights.                              *)
(***************************************************************************)
Interp(img, xq, yq) ==
    LET fx0 == FloorInt(xq)
        fx1 == AddOne(fx0)
        fy0 == FloorInt(yq)
        fy1 == AddOne(fy0)
        cx0 == Clip(fx0, 0, Shape1(img) - 1)
        cx1 == Clip(fx1, 0, Shape1(img) - 1)
        cy0 == Clip(fy0, 0, Shape0(img) - 1)
        cy1 == Clip(fy1, 0, Shape0(img) - 1)
        ok == \A i \in DOMAIN xq :
                 /\ IndexOk(Shape1(img), cx0[i]) /\ IndexOk(Shape1(img), cx1[i])
                 /\ IndexOk(Shape0(img), cy0[i]) /\ IndexOk(Shape0(img), cy1[i])
        Ia == Take(img, cy0, cx0)
        Ib == Take(img, cy1, cx0)
        Ic == Take(img, cy0, cx1)
        Id == Take(img, cy1, cx1)
        a == WeightA(xq, yq, cx0, cx1, cy0, cy1)
        b == WeightB(xq, yq, cx0, cx1, cy0, cy1)
        c == WeightC(xq, yq, cx0, cx1, cy0, cy1)
        d == WeightD(xq, yq, cx0, cx1, cy0, cy1)
    IN  [ x0 |-> cx0, x1 |-> cx1, y0 |-> cy0, y1 |-> cy1,
          \* an IndexError at the first lookup leaves the weights unassigned
          wa |-> IF ok THEN a ELSE << >>, wb |-> IF ok THEN b ELSE << >>,
          wc |-> IF ok THEN c ELSE << >>, wd |-> IF ok THEN d ELSE << >>,
          ok |-> ok,
          values |-> IF ok
                     THEN Plus(Plus(Plus(Times(Ia, a), Times(Ib, b)), Times(Ic, c)),
                               Times(Id, d))
                     ELSE << >> ]

bilinear_interpolate ==
    /\ pc = "call"
    /\ \E r \in {Interp(image, x, y)} :
           /\ x0' = r.x0 /\ x1' = r.x1 /\ y0' = r.y0 /\ y1' = r.y1
           /\ wa' = r.wa /\ wb' = r.wb /\ wc' = r.wc /\ wd' = r.wd
           /\ values' = r.values
           /\ pc' = IF r.ok THEN "done" ELSE "IndexError"
    /\ UNCHANGED <<image, x, y>>
    /\ UNCHANGED clickVars

(***************************************************************************)
(* SelectPoints.  Click coordinates are fixed-point too, in twentieths of  *)
(* a data unit, so that toffset = 0.05 * (view width) is exact.            *)
(***************************************************************************)
Twentieth == 20

OwnAxes == "ax"
NoEvent == [inaxes |-> "-"]

ClickCoords == 0..MaxClick

\* the events a canvas can deliver: a click in the collector's axes, a click
\* in another axes of the figure, a click outside every axes (inaxes is None)
Events ==
    { [inaxes |-> a, xdata |-> cx, ydata |-> cy] :
        a \in {OwnAxes, "other"}, cx \in ClickCoords, cy \in ClickCoords }
    \cup { [inaxes |-> "None"] }

\* '%s' % n for a non-negative int n: its decimal digits
Digit(d) == <<"0", "1", "2", "3", "4", "5", "6", "7", "8", "9">>[d + 1]
RECURSIVE Str(_)
Str(n) == IF n < 10 THEN <<Digit(n)>> ELSE Str(n \div 10) \o <<Digit(n % 10)>>

\* 0.05 * (ax.viewLim.x1 - ax.viewLim.x0)
Toffset(vx0, vx1) == (5 * (vx1 - vx0)) \div 100

\* event.inaxes != self.pts.axes
\* fault variant: only clicks outside every axes are ignored
IgnoredOnlyNone(e) == e.inaxes = "None"
Ignored(e) == e.inaxes # OwnAxes

\* the label ax.text(...) adds for a click, given the list xs after the append
\* fault variant: the label counts from 0
LabelZeroBased(e, after) ==
    [x |-> e.xdata + toffset, y |-> e.ydata, s |-> Str(Len(after) - 1)]
Label(e, after) ==
    [x |-> e.xdata + toffset, y |-> e.ydata, s |-> Str(Len(after))]

\* SelectPoints.__init__(ax, npoints), for an axis whose view is w units wide
SelectPointsInit(n, w) ==
    /\ npoints = n
    /\ xs = << >>
    /\ ys = << >>
    /\ pts = [xdata |-> <<0>>, ydata |-> <<0>>]
    /\ texts = << >>
    /\ connected = TRUE
    /\ ndraw = 0
    /\ toffset = Toffset(0, w * Twentieth)
    /\ event = NoEvent

\* SelectPoints.__call__(event)
Call(e) ==
    IF Ignored(e)
    THEN UNCHANGED <<xs, ys, pts, texts, ndraw, connected>>
    ELSE /\ xs' = Append(xs, e.xdata)
         /\ ys' = Append(ys, e.ydata)
         /\ pts' = [xdata |-> xs', ydata |-> ys']
         /\ texts' = Append(texts, Label(e, xs'))
         /\ ndraw' = ndraw + 1
         /\ connected' = IF Len(xs') >= npoints THEN FALSE ELSE connected

\* the canvas delivers a 'button_press_event' to the handlers connected to it
button_press_event ==
    \E e \in Events :
        /\ event' = e
        /\ IF connected
           THEN Call(e)
           ELSE UNCHANGED <<xs, ys, pts, texts, ndraw, connected>>
        /\ UNCHANGED <<npoints, toffset>>
        /\ UNCHANGED samplerVars

(***************************************************************************)
(* Specifications.                                                         *)
(***************************************************************************)
SamplerIdle ==
    /\ image = <<<<0>>>> /\ x = << >> /\ y = << >>
    /\ x0 = << >> /\ x1 = << >> /\ y0 = << >> /\ y1 = << >>
    /\ wa = << >> /\ wb = << >> /\ wc = << >> /\ wd = << >>
    /\ values = << >> /\ pc = "idle"

\* a call of bilinear_interpolate about to run on a field of imgs and a batch
\* of n points with coordinates in coords
SamplerCall(imgs, coords, lens) ==
    /\ image \in imgs
    /\ \E n \in lens : x \in SeqsOf(coords, n) /\ y \in SeqsOf(coords, n)
    /\ x0 = << >> /\ x1 = << >> /\ y0 = << >> /\ y1 = << >>
    /\ wa = << >> /\ wb = << >> /\ wc = << >> /\ wd = << >>
    /\ values = << >> /\ pc = "call"

Init == SamplerCall(Images, Coords, {1}) /\ SelectPointsInit(0, 1)
Next == bilinear_interpolate
Spec == Init /\ [][Next]_vars

InitBatch == SamplerCall(BatchImages, BatchCoords, 0..MaxBatch) /\ SelectPointsInit(0, 1)
SpecBatch == InitBatch /\ [][Next]_vars

InitClick ==
    /\ SamplerIdle
    /\ \E n \in 0..MaxPoints, w \in 1..MaxView : SelectPointsInit(n, w)
NextClick == button_press_event
SpecClick == InitClick /\ [][NextClick]_vars

(***************************************************************************)
(* Vocabulary of the properties.                                           *)
(***************************************************************************)
H == Shape0(image)
W == Shape1(image)
Unit == Scale * Scale
Done == pc = "done"
Cell(r, k) == image[r + 1][k + 1]
Clamp(i, n) == IF i < 0 THEN 0 ELSE IF i > n - 1 THEN n - 1 ELSE i
\* floor of the i-th query coordinate, before any clamping
FX(i) == x[i] \div Scale
FY(i) == y[i] \div Scale
Fractional(i) == x[i] % Scale # 0 /\ y[i] % Scale # 0

\* (x[i], y[i]) is a grid point of the field
OnGrid(i) ==
    /\ x[i] % Scale = 0 /\ 0 <= x[i] /\ x[i] <= (W - 1) * Scale
    /\ y[i] % Scale = 0 /\ 0 <= y[i] /\ y[i] <= (H - 1) * Scale

\* C1: at every integer query point within bounds, last row and last column
\* included, the sampler returns the cell's value exactly.
C1_GridExact ==
    Done => \A i \in DOMAIN x :
                OnGrid(i) => values[i] = Cell(FY(i), FX(i)) * Unit

\* C2: the returned value is Ia*wa + Ib*wb + Ic*wc + Id*wd with the corners
\* looked up at the clamped indices and the weights computed from the
\* unclamped floor(x), floor(x)+1, floor(y), floor(y)+1.
C2_PreClampWeights ==
    Done => \A i \in DOMAIN x :
        LET ua == ((FX(i) + 1) * Scale - x[i]) * ((FY(i) + 1) * Scale - y[i])
            ub == ((FX(i) + 1) * Scale - x[i]) * (y[i] - FY(i) * Scale)
            uc == (x[i] - FX(i) * Scale) * ((FY(i) + 1) * Scale - y[i])
            ud == (x[i] - FX(i) * Scale) * (y[i] - FY(i) * Scale)
        IN  /\ wa[i] = ua /\ wb[i] = ub /\ wc[i] = uc /\ wd[i] = ud
            /\ values[i] = Cell(y0[i], x0[i]) * ua + Cell(y1[i], x0[i]) * ub
                           + Cell(y0[i], x1[i]) * uc + Cell(y1[i], x1[i]) * ud

\* the four corner lookups of point i clamp onto one and the same cell
Collapsed(i) ==
    /\ FX(i) < 0 \/ FX(i) >= W - 1
    /\ FY(i) < 0 \/ FY(i) >= H - 1

\* C3: a query point whose four corners all clamp onto one cell returns
\* exactly that cell's value (the nearest edge pixel).
C3_NearestEdge ==
    Done => \A i \in DOMAIN x :
                Collapsed(i) => values[i] = Cell(Clamp(FY(i), H), Clamp(FX(i), W)) * Unit

\* C4: the call never fails on an index, every column index used for a lookup
\* lies in [0, W-1] and every row index in [0, H-1]; the column indices depend
\* on x and W alone and the row indices on y and H alone; left of the field
\* all lookups use column 0, right of it column W-1, and likewise for rows.
C4_BorderClamp ==
    /\ pc # "IndexError"
    /\ Done => \A i \in DOMAIN x :
        /\ x0[i] \in 0..(W - 1) /\ x1[i] \in 0..(W - 1)
        /\ y0[i] \in 0..(H - 1) /\ y1[i] \in 0..(H - 1)
        /\ x0[i] = Clamp(FX(i), W) /\ x1[i] = Clamp(FX(i) + 1, W)
        /\ y0[i] = Clamp(FY(i), H) /\ y1[i] = Clamp(FY(i) + 1, H)
        /\ x[i] < 0 => x0[i] = 0 /\ x1[i] = 0
        /\ x[i] > (W - 1) * Scale => x0[i] = W - 1 /\ x1[i] = W - 1
        /\ y[i] < 0 => y0[i] = 0 /\ y1[i] = 0
        /\ y[i] > (H - 1) * Scale => y0[i] = H - 1 /\ y1[i] = H - 1

\* a point left of a field at least two columns wide, at a row inside it
C4_Witness ==
    /\ Done /\ W >= 2 /\ H >= 2
    /\ x[1] < 0 - Scale /\ y[1] = Scale
    /\ x0[1] = 0 /\ x1[1] = 0 /\ y0[1] = 1

\* the field is the plane a*row + b*col + c
IsPlane(a, b, c) ==
    \A r \in 1..H, k \in 1..W : image[r][k] = a * (r - 1) + b * (k - 1) + c

\* 0 <= x < W-1 and 0 <= y < H-1
Interior(i) ==
    /\ 0 <= x[i] /\ x[i] < (W - 1) * Scale
    /\ 0 <= y[i] /\ y[i] < (H - 1) * Scale

\* C5: on a planar field a*row + b*col + c, an interior query point (x, y)
\* returns a*y + b*x + c.
C5_InteriorLinearity ==
    Done => \A a \in 0..MaxSlope, b \in 0..MaxSlope, c \in 0..MaxOffset :
        IsPlane(a, b, c) =>
            \A i \in DOMAIN x :
                Interior(i) =>
                    values[i] = a * y[i] * Scale + b * x[i] * Scale + c * Unit

\* a fractional interior point of a plane that slopes both ways
C5_Witness ==
    /\ Done /\ Interior(1) /\ Fractional(1)
    /\ \E a \in 1..MaxSlope, b \in 1..MaxSlope, c \in 0..MaxOffset :
          a # b /\ IsPlane(a, b, c)

\* C6: a batch returns one value per point, in order, each equal to what the
\* point yields when sampled alone.
C6_BatchOrder ==
    /\ pc # "IndexError"
    /\ Done =>
        /\ Len(values) = Len(x)
        /\ \A i \in DOMAIN x :
              values[i] = Interp(image, <<x[i]>>, <<y[i]>>).values[1]

\* a batch of two different points with different results
C6_Witness ==
    /\ Done /\ Len(x) = MaxBatch
    /\ x[1] # x[2] /\ values[1] # values[2] /\ x0[1] # x0[2]

\* floor(x) and floor(x)+1 are both columns, floor(y) and floor(y)+1 both rows
FloorInterior(i) ==
    /\ 0 <= FX(i) /\ FX(i) <= W - 2
    /\ 0 <= FY(i) /\ FY(i) <= H - 2

CornerValues(i) ==
    { Cell(FY(i), FX(i)), Cell(FY(i) + 1, FX(i)),
      Cell(FY(i), FX(i) + 1), Cell(FY(i) + 1, FX(i) + 1) }

\* C10: where no clamping acts, the four weights are each in [0, 1], sum to
\* exactly 1, and the result lies between the least and the greatest corner.
C10_WeightSum ==
    Done => \A i \in DOMAIN x :
        FloorInterior(i) =>
            /\ wa[i] \in 0..Unit /\ wb[i] \in 0..Unit
            /\ wc[i] \in 0..Unit /\ wd[i] \in 0..Unit
            /\ wa[i] + wb[i] + wc[i] + wd[i] = Unit
            /\ \E lo \in CornerValues(i), hi \in CornerValues(i) :
                  lo * Unit <= values[i] /\ values[i] <= hi * Unit

\* a fractional point between four corners that are not all equal
C10_Witness ==
    /\ Done /\ FloorInterior(1) /\ Fractional(1)
    /\ Cardinality(CornerValues(1)) >= 3
    /\ wa[1] > 0 /\ wd[1] > 0

\* C7: for every target count npoints >= 0 the collector listens while fewer
\* than npoints points are recorded and stops exactly at the click that brings
\* the count to npoints; so the count never exceeds npoints, and once stopped
\* no click changes xs or ys.
C7_StopsAtTarget ==
    /\ [](Len(xs) <= npoints /\ (Len(xs) < npoints => connected))
    /\ [][ /\ (connected /\ ~connected') <=>
                (Len(xs) < npoints /\ Len(xs') = npoints)
           /\ ~connected => ~connected' /\ UNCHANGED <<xs, ys>> ]_vars

\* C8: a click whose axes is not the collector's leaves xs, ys, the drawn
\* data, the labels, the redraw count and the connection as they were.
C8_OutsideDropped ==
    [][ event'.inaxes # OwnAxes =>
            UNCHANGED <<xs, ys, pts, texts, ndraw, connected>> ]_vars

\* an outside click has just reached a listening collector holding a point
C8_Witness ==
    /\ event.inaxes \in {"other", "None"}
    /\ connected /\ Len(xs) >= 1

\* the number a label's text reads as
DigitValue(ch) == CHOOSE d \in 0..9 : Digit(d) = ch
RECURSIVE DecimalValue(_)
DecimalValue(s) ==
    IF Len(s) = 1 THEN DigitValue(s[1])
    ELSE 10 * DecimalValue(SubSeq(s, 1, Len(s) - 1)) + DigitValue(s[Len(s)])

IsPrefix(s, t) == Len(s) <= Len(t) /\ SubSeq(t, 1, Len(s)) = s

PointsAndLabelsAgree ==
    /\ Len(xs) = Len(ys)
    /\ Len(texts) = Len(xs)
    /\ \A k \in DOMAIN texts : DecimalValue(texts[k].s) = k

AcceptedInOrder ==
    /\ IsPrefix(xs, xs') /\ IsPrefix(ys, ys') /\ IsPrefix(texts, texts')
    /\ Len(xs') <= Len(xs) + 1
    /\ Len(xs') = Len(xs) + 1 =>
          /\ event'.inaxes = OwnAxes
          /\ xs'[Len(xs')] = event'.xdata /\ ys'[Len(ys')] = event'.ydata
    /\ connected /\ event'.inaxes = OwnAxes => Len(xs') = Len(xs) + 1

\* C9: xs and ys have equal length, the k-th accepted click is stored at
\* position k in click order and earlier entries never change, and each
\* accepted click adds exactly one label, reading k.
C9_PointsAndLabels == []PointsAndLabelsAgree /\ [][AcceptedInOrder]_vars

\* two different points recorded, with their two labels
C9_Witness ==
    /\ Len(xs) = 2 /\ Len(texts) = 2
    /\ xs[1] # xs[2] /\ ys[1] # ys[2]

====
